---- MODULE Spec2Model ----
(***************************************************************************)
(* Model of the README generator core of src/app/api/generate-readme/      *)
(* route.ts: the file Selector (getCandidateFiles, after the tree has been *)
(* fetched) and the Markdown Normalizer (normalizeMarkdown).               *)
(*                                                                         *)
(* Texts and paths are TLA+ strings; a character is a string of length 1.  *)
(* SANY cannot lex a backquote inside a string literal, so the backquote   *)
(* character of the source is written as the apostrophe ' throughout; the  *)
(* apostrophe itself never occurs in a modelled text.                      *)
(***************************************************************************)
EXTENDS Integers, Sequences, FiniteSets, TLC

VARIABLES
  pc,        \* position in the function that is running
  tree,      \* Selector: tree.tree as returned by the git trees API
  scored,    \* Selector: the filtered, scored and sorted files
  pos,       \* Selector: index of the `for (const f of scored)` loop
  selected,  \* Selector: the result under construction
  total,     \* Selector: running byte total
  input,     \* Normalizer: the argument of normalizeMarkdown
  s,         \* Normalizer: the local `s`
  lines,     \* Normalizer, table scan: `lines`
  out,       \* Normalizer, table scan: `out`
  i,         \* Normalizer, table scan: `i`
  block,     \* Normalizer, table scan: `block` of the run being read
  round      \* Normalizer: 1 in the first call, 2 in a call on the first call's result

vars == <<pc, tree, scored, pos, selected, total, input, s, lines, out, i, block, round>>
selVars == <<tree, scored, pos, selected, total>>
normVars == <<input, s, lines, out, i, block, round>>

-----------------------------------------------------------------------------
(* Characters and strings                                                  *)

Char(str, k) == IF k >= 1 /\ k <= Len(str) THEN SubSeq(str, k, k) ELSE ""

UpperCase == "ABCDEFGHIJKLMNOPQRSTUVWXYZ"
LowerCase == "abcdefghijklmnopqrstuvwxyz"

LowerOf == [k \in 1..Len(UpperCase) |-> <<Char(UpperCase, k), Char(LowerCase, k)>>]
UpperChars == {LowerOf[k][1] : k \in DOMAIN LowerOf}

toLowerChar(c) ==
  IF c \in UpperChars
  THEN LowerOf[CHOOSE k \in DOMAIN LowerOf : LowerOf[k][1] = c][2]
  ELSE c

RECURSIVE toLowerCase(_)
toLowerCase(str) ==
  IF str = "" THEN "" ELSE toLowerChar(Char(str, 1)) \o toLowerCase(Tail(str))

\* str.startsWith(lit, at k) on a 1-based index
StartsAt(str, k, lit) ==
  /\ k >= 1
  /\ k + Len(lit) - 1 <= Len(str)
  /\ SubSeq(str, k, k + Len(lit) - 1) = lit

startsWith(str, lit) == StartsAt(str, 1, lit)
endsWith(str, lit) == StartsAt(str, Len(str) - Len(lit) + 1, lit)
includes(str, lit) == \E k \in 1..Len(str) : StartsAt(str, k, lit)

\* str.split('/').pop() || ''
baseName(path) ==
  LET slashes == {k \in 1..Len(path) : Char(path, k) = "/"}
      last == IF slashes = {} THEN 0 ELSE CHOOSE k \in slashes : \A m \in slashes : m <= k
  IN SubSeq(path, last + 1, Len(path))

-----------------------------------------------------------------------------
(* Selector: getCandidateFiles                                             *)

exts == {".ts", ".tsx", ".js", ".jsx", ".py", ".rs", ".go", ".rb", ".java", ".cs",
         ".php", ".kt", ".swift", ".md", ".json", ".yml", ".yaml"}

importantNames == {"README.md", "readme.md", "package.json", "requirements.txt",
                   "pyproject.toml", "Cargo.toml", "go.mod", "pom.xml", "composer.json",
                   "Makefile", "Dockerfile", "docker-compose.yml", "pnpm-lock.yaml",
                   "yarn.lock"}

MAX_FILES == 40
MAX_TOTAL_BYTES == 600000
MAX_SINGLE_BYTES == 150000

\* An entry of tree.tree is a record with path and type, and size when the API
\* gave one (`size?: number`).
hasSize(f) == "size" \in DOMAIN f

\* a missing size taken for more than any file may have
sizeOrTooLarge(f) == IF hasSize(f) THEN f.size ELSE MAX_SINGLE_BYTES + 1

\* f.size ?? 0
sizeOf(f) == IF hasSize(f) THEN f.size ELSE 0

isBlob(n) == n.type = "blob"

\* a filter that lets every file pass
isOfAnyKind(f) == TRUE

\* line 60
isOfInterest(f) ==
  \/ baseName(f.path) \in importantNames
  \/ \E e \in exts : endsWith(f.path, e)

\* tree.tree.filter(blob).map({path, size}).filter(importantNames || exts)
RECURSIVE filterFiles(_)
filterFiles(t) ==
  IF t = <<>> THEN <<>>
  ELSE LET n == Head(t)
           f == IF hasSize(n) THEN [path |-> n.path, size |-> n.size]
                ELSE [path |-> n.path]
       IN IF isBlob(n) /\ isOfInterest(f)
          THEN <<f>> \o filterFiles(Tail(t))
          ELSE filterFiles(Tail(t))

\* The scoring without the rule for paths that contain "readme".
scoreOfWithoutReadmeRule(path) ==
  LET p == toLowerCase(path) IN
    (IF p = "readme.md" THEN 100 ELSE 0)
  + (IF startsWith(p, "docs/") THEN 30 ELSE 0)
  + (IF ~includes(p, "/") THEN 25 ELSE 0)
  + (IF endsWith(p, ".md") THEN 15 ELSE 0)
  + (IF endsWith(p, "package.json") THEN 40 ELSE 0)
  + (IF endsWith(p, "dockerfile") THEN 20 ELSE 0)
  + (IF endsWith(p, ".ts") \/ endsWith(p, ".tsx") \/ endsWith(p, ".js") \/ endsWith(p, ".jsx")
     THEN 5 ELSE 0)

\* lines 64-73
scoreOf(path) ==
  LET p == toLowerCase(path) IN
    (IF p = "readme.md" THEN 100 ELSE 0)
  + (IF includes(p, "readme") THEN 20 ELSE 0)
  + (IF startsWith(p, "docs/") THEN 30 ELSE 0)
  + (IF ~includes(p, "/") THEN 25 ELSE 0)
  + (IF endsWith(p, ".md") THEN 15 ELSE 0)
  + (IF endsWith(p, "package.json") THEN 40 ELSE 0)
  + (IF endsWith(p, "dockerfile") THEN 20 ELSE 0)
  + (IF endsWith(p, ".ts") \/ endsWith(p, ".tsx") \/ endsWith(p, ".js") \/ endsWith(p, ".jsx")
     THEN 5 ELSE 0)

\* files.map(f => ({ ...f, score }))
withScore(f) ==
  IF hasSize(f) THEN [path |-> f.path, size |-> f.size, score |-> scoreOf(f.path)]
  ELSE [path |-> f.path, score |-> scoreOf(f.path)]

RECURSIVE mapScore(_)
mapScore(fs) == IF fs = <<>> THEN <<>> ELSE <<withScore(Head(fs))>> \o mapScore(Tail(fs))

\* A sort that puts an element in front of the elements of equal score already
\* placed: it reverses ties.
RECURSIVE insertUnstable(_, _)
insertUnstable(sorted, e) ==
  IF sorted = <<>> THEN <<e>>
  ELSE IF Head(sorted).score <= e.score THEN <<e>> \o sorted
       ELSE <<Head(sorted)>> \o insertUnstable(Tail(sorted), e)

\* Array.prototype.sort is stable: an element goes behind every element already
\* placed whose score is greater or equal.
RECURSIVE insertSorted(_, _)
insertSorted(sorted, e) ==
  IF sorted = <<>> THEN <<e>>
  ELSE IF Head(sorted).score < e.score THEN <<e>> \o sorted
       ELSE <<Head(sorted)>> \o insertSorted(Tail(sorted), e)

\* .sort((a, b) => b.score - a.score)
RECURSIVE sortByScore(_, _)
sortByScore(acc, rest) ==
  IF rest = <<>> THEN acc ELSE sortByScore(insertSorted(acc, Head(rest)), Tail(rest))

RECURSIVE sumSizes(_)
sumSizes(sel) == IF sel = <<>> THEN 0 ELSE sizeOf(Head(sel)) + sumSizes(Tail(sel))

\* The single-file check made against the total budget instead of the
\* single-file limit.
tooLargeForTotal(size) == size > MAX_TOTAL_BYTES

\* if (size > 150_000) continue
tooLarge(size) == size > MAX_SINGLE_BYTES

\* A budget check made before the new file is added: the last accepted file may
\* carry the total over the budget.
overBudgetBeforeAdding(tot, size) == tot > MAX_TOTAL_BYTES

\* if (total + size > MAX_TOTAL_BYTES) continue
overBudget(tot, size) == tot + size > MAX_TOTAL_BYTES

\* if (selected.length >= MAX_FILES) break
atFileLimit(sel) == Len(sel) >= MAX_FILES

-----------------------------------------------------------------------------
(* Selector: input trees                                                   *)

MaxHead == 2      \* length of a tree drawn freely from the catalog
MaxFillHead == 1  \* catalog entries in front of a run of generated files
MaxFill == 42     \* length of a run of generated files

Catalog ==
  { [path |-> "README.md", type |-> "blob", size |-> 500],
    [path |-> "docs/guide.md", type |-> "blob", size |-> 2000],
    [path |-> "src/a.ts", type |-> "blob", size |-> 100000],
    [path |-> "src/b.ts", type |-> "blob", size |-> 100000],
    [path |-> "src/big.js", type |-> "blob", size |-> 150001],
    [path |-> "docs/readme.md", type |-> "blob", size |-> 150000],
    [path |-> "package.json", type |-> "blob"],
    [path |-> "lib/my-package.json", type |-> "blob", size |-> 2000],
    [path |-> "Dockerfile", type |-> "blob", size |-> 150000],
    [path |-> "logo.png", type |-> "blob", size |-> 500],
    [path |-> "src", type |-> "tree"],
    [path |-> "vendor/chart.js", type |-> "tree"] }

Digits == "0123456789"
NumStr(n) == Char(Digits, (n \div 10) + 1) \o Char(Digits, (n % 10) + 1)

\* k generated source files src/f01.js .. of one size (0 stands for: no size given)
Fill(k, size) ==
  [n \in 1..k |->
     IF size = 0 THEN [path |-> "src/f" \o NumStr(n) \o ".js", type |-> "blob"]
     ELSE [path |-> "src/f" \o NumStr(n) \o ".js", type |-> "blob", size |-> size]]

FillSizes == {0, 15000, 150000}

Heads(maxLen) == UNION {[1..n -> Catalog] : n \in 0..maxLen}

ExampleTree ==
  << [path |-> "README.md", type |-> "blob", size |-> 500],
     [path |-> "docs/guide.md", type |-> "blob", size |-> 2000],
     [path |-> "src/a.ts", type |-> "blob", size |-> 100000] >>

\* four files that use up the byte budget, in front of lower-scored files:
\* one without a size, a small one, and one of the single-file limit
FullBudgetTree ==
  Fill(4, MAX_SINGLE_BYTES)
    \o << [path |-> "lib/x.py", type |-> "blob"],
          [path |-> "lib/y.py", type |-> "blob", size |-> 1] >>

\* a file that no longer fits the byte budget, scored above a file that does
GreedyTree ==
  << [path |-> "src/a.ts", type |-> "blob", size |-> 100000] >>
    \o Fill(4, MAX_SINGLE_BYTES)
    \o << [path |-> "lib/y.py", type |-> "blob", size |-> 1] >>

Trees ==
  Heads(MaxHead)
    \cup {h \o Fill(MaxFill, sz) : h \in Heads(MaxFillHead), sz \in FillSizes}
    \cup {ExampleTree, FullBudgetTree, GreedyTree}

-----------------------------------------------------------------------------
(* Selector: the steps of getCandidateFiles once the tree has arrived      *)

NormIdle ==
  /\ input = "" /\ s = "" /\ lines = <<>> /\ out = <<>> /\ i = 0 /\ block = <<>> /\ round = 0

InitSelector ==
  /\ pc = "filter"
  /\ tree \in Trees
  /\ scored = <<>>
  /\ pos = 1
  /\ selected = <<>>
  /\ total = 0
  /\ NormIdle

\* lines 59-76: filter, score, sort
ScoreAndSort ==
  /\ pc = "filter"
  /\ scored' = sortByScore(<<>>, mapScore(filterFiles(tree)))
  /\ pc' = "loop"
  /\ UNCHANGED <<tree, pos, selected, total>>
  /\ UNCHANGED normVars

\* line 85: break
LoopBreak ==
  /\ pc = "loop"
  /\ pos <= Len(scored)
  /\ atFileLimit(selected)
  /\ pc' = "return"
  /\ UNCHANGED selVars
  /\ UNCHANGED normVars

\* line 86: continue
SkipLarge ==
  /\ pc = "loop"
  /\ pos <= Len(scored)
  /\ ~atFileLimit(selected)
  /\ tooLarge(sizeOf(scored[pos]))
  /\ pos' = pos + 1
  /\ UNCHANGED <<pc, tree, scored, selected, total>>
  /\ UNCHANGED normVars

\* a loop that gives up at the first file that does not fit the byte budget
AbortOnTotal ==
  /\ pc = "loop"
  /\ pos <= Len(scored)
  /\ ~atFileLimit(selected)
  /\ ~tooLarge(sizeOf(scored[pos]))
  /\ overBudget(total, sizeOf(scored[pos]))
  /\ pc' = "return"
  /\ UNCHANGED selVars
  /\ UNCHANGED normVars

\* line 87: continue
SkipTotal ==
  /\ pc = "loop"
  /\ pos <= Len(scored)
  /\ ~atFileLimit(selected)
  /\ ~tooLarge(sizeOf(scored[pos]))
  /\ overBudget(total, sizeOf(scored[pos]))
  /\ pos' = pos + 1
  /\ UNCHANGED <<pc, tree, scored, selected, total>>
  /\ UNCHANGED normVars

\* lines 88-89: push and add
Accept ==
  /\ pc = "loop"
  /\ pos <= Len(scored)
  /\ ~atFileLimit(selected)
  /\ ~tooLarge(sizeOf(scored[pos]))
  /\ ~overBudget(total, sizeOf(scored[pos]))
  /\ selected' = Append(selected, [path |-> scored[pos].path, size |-> sizeOf(scored[pos])])
  /\ total' = total + sizeOf(scored[pos])
  /\ pos' = pos + 1
  /\ UNCHANGED <<pc, tree, scored>>
  /\ UNCHANGED normVars

\* the for-of loop runs out of elements
LoopEnd ==
  /\ pc = "loop"
  /\ pos > Len(scored)
  /\ pc' = "return"
  /\ UNCHANGED selVars
  /\ UNCHANGED normVars

NextSelector == ScoreAndSort \/ LoopBreak \/ SkipLarge \/ SkipTotal \/ Accept \/ LoopEnd

SpecSelector == InitSelector /\ [][NextSelector]_vars

-----------------------------------------------------------------------------
(* Normalizer: regular-expression building blocks                          *)

Tick == "'"          \* the backquote character
Fence == Tick \o Tick \o Tick       \* three backquotes

\* \s, over the characters that occur in the modelled texts
isSpace(c) == c \in {" ", "\t", "\n"}

\* [ \t]
isBlank(c) == c \in {" ", "\t"}

\* \s* from index k: the index behind the longest run of white space
RECURSIVE skipSpace(_, _)
skipSpace(str, k) ==
  IF k <= Len(str) /\ isSpace(Char(str, k)) THEN skipSpace(str, k + 1) ELSE k

\* [ \t]* from index k
RECURSIVE skipBlank(_, _)
skipBlank(str, k) ==
  IF k <= Len(str) /\ isBlank(Char(str, k)) THEN skipBlank(str, k + 1) ELSE k

\* [^c]* from index k: the index of the first c at or behind k, Len + 1 if none
RECURSIVE skipTo(_, _, _)
skipTo(str, k, c) ==
  IF k <= Len(str) /\ Char(str, k) # c THEN skipTo(str, k + 1, c) ELSE k

\* a literal at index k, compared without case (the i flag)
StartsAtNoCase(str, k, lit) ==
  /\ k >= 1
  /\ k + Len(lit) - 1 <= Len(str)
  /\ toLowerChar(Char(str, k)) = Char(lit, 1)
  /\ toLowerCase(SubSeq(str, k, k + Len(lit) - 1)) = lit

\* String.prototype.trim
RECURSIVE trimStart(_)
trimStart(str) ==
  IF str # "" /\ isSpace(Char(str, 1)) THEN trimStart(Tail(str)) ELSE str

RECURSIVE trimEnd(_)
trimEnd(str) ==
  IF str # "" /\ isSpace(Char(str, Len(str)))
  THEN trimEnd(SubSeq(str, 1, Len(str) - 1)) ELSE str

trim(str) == trimEnd(trimStart(str))

RECURSIVE repeat(_, _)
repeat(str, n) == IF n <= 0 THEN "" ELSE str \o repeat(str, n - 1)

\* The least index at or behind k where the expression matches, 0 if there is
\* none. matchEnd(str, j) is the index behind the match that starts at j, or 0
\* when the expression does not match there. Matches are never empty.
firstMatch(matchEnd(_, _), str, k) ==
  LET ks == {j \in k..Len(str) : matchEnd(str, j) > 0} IN
  IF ks = {} THEN 0 ELSE CHOOSE j \in ks : \A m \in ks : j <= m

\* str.replace(/re/g, fn), from index k on: repl(str, j, e) is the replacement
\* of the match str[j .. e-1]; the search goes on behind each match.
RECURSIVE replaceAll(_, _, _, _)
replaceAll(matchEnd(_, _), repl(_, _, _), str, k) ==
  LET j == firstMatch(matchEnd, str, k) IN
  IF j = 0 THEN SubSeq(str, k, Len(str))
  ELSE SubSeq(str, k, j - 1) \o repl(str, j, matchEnd(str, j))
         \o replaceAll(matchEnd, repl, str, matchEnd(str, j))

\* str.replace(/re/, fn) without the g flag: the leftmost match only
replaceFirst(matchEnd(_, _), repl(_, _, _), str, k) ==
  LET j == firstMatch(matchEnd, str, k) IN
  IF j = 0 THEN SubSeq(str, k, Len(str))
  ELSE SubSeq(str, k, j - 1) \o repl(str, j, matchEnd(str, j))
         \o SubSeq(str, matchEnd(str, j), Len(str))

\* ^ under the m flag
atLineStart(str, k) == k = 1 \/ Char(str, k - 1) = "\n"

\* str.split('\n')
RECURSIVE splitLines(_)
splitLines(str) ==
  LET n == skipTo(str, 1, "\n") IN
  IF n > Len(str) THEN <<str>>
  ELSE <<SubSeq(str, 1, n - 1)>> \o splitLines(SubSeq(str, n + 1, Len(str)))

\* lines.join('\n')
RECURSIVE joinLines(_)
joinLines(ls) ==
  IF ls = <<>> THEN ""
  ELSE IF Len(ls) = 1 THEN ls[1]
  ELSE ls[1] \o "\n" \o joinLines(Tail(ls))

\* str.replace(/^...$/gm, fn) for an expression that matches whole lines only
RECURSIVE mapLines(_, _)
mapLines(f(_), ls) == IF ls = <<>> THEN <<>> ELSE <<f(Head(ls))>> \o mapLines(f, Tail(ls))

-----------------------------------------------------------------------------
(* Normalizer, line 126: fence markers that wrap the entire output         *)

\* /^'''markdown\s*\n?/i
openFenceEnd(str, k) ==
  IF k = 1 /\ StartsAtNoCase(str, 1, Fence \o "markdown")
  THEN skipSpace(str, 1 + Len(Fence \o "markdown"))
  ELSE 0

\* /\n?'''\s*$/i
closeFenceEnd(str, k) ==
  LET f == IF Char(str, k) = "\n" THEN k + 1 ELSE k IN
  IF StartsAt(str, f, Fence) /\ skipSpace(str, f + Len(Fence)) = Len(str) + 1
  THEN Len(str) + 1
  ELSE 0

erase(str, k, e) == ""

stripOpenFence(str) ==
  IF openFenceEnd(str, 1) > 1 THEN SubSeq(str, openFenceEnd(str, 1), Len(str)) ELSE str

stripCloseFence(str) == replaceFirst(closeFenceEnd, erase, str, 1)

stripOuterFence(str) == stripCloseFence(stripOpenFence(str))

-----------------------------------------------------------------------------
(* Normalizer, lines 129-139: HTML to Markdown                             *)

\* the index of the first "</hN>" (N = lvl, without case) at or behind k, 0 if none
RECURSIVE findHeadingClose(_, _, _)
findHeadingClose(str, k, lvl) ==
  IF k > Len(str) THEN 0
  ELSE IF StartsAtNoCase(str, k, "</h" \o lvl \o ">") THEN k
  ELSE findHeadingClose(str, k + 1, lvl)

\* /<h([1-6])[^>]*>([\s\S]*?)<\/h\1>/gi
headingTextStart(str, k) ==
  IF /\ StartsAtNoCase(str, k, "<h")
     /\ Char(str, k + 2) \in {"1", "2", "3", "4", "5", "6"}
     /\ skipTo(str, k + 3, ">") <= Len(str)
  THEN skipTo(str, k + 3, ">") + 1
  ELSE 0

headingEnd(str, k) ==
  LET t == headingTextStart(str, k) IN
  IF t = 0 THEN 0
  ELSE LET c == findHeadingClose(str, t, Char(str, k + 2)) IN
       IF c = 0 THEN 0 ELSE c + Len("</h1>")

levelOf(c) == CHOOSE n \in 1..6 : Char("123456", n) = c

\* `\n${hashes} ${text.trim()}\n`
headingRepl(str, k, e) ==
  LET t == headingTextStart(str, k)
      text == SubSeq(str, t, e - Len("</h1>") - 1)
  IN "\n" \o repeat("#", levelOf(Char(str, k + 2))) \o " " \o trim(text) \o "\n"

foldHeadings(str) == replaceAll(headingEnd, headingRepl, str, 1)

newline(str, k, e) == "\n"

\* /<div[^>]*>\s*/gi and /<center[^>]*>\s*/gi
openTagEnd(str, k, tag) ==
  IF StartsAtNoCase(str, k, "<" \o tag) /\ skipTo(str, k + 1 + Len(tag), ">") <= Len(str)
  THEN skipSpace(str, skipTo(str, k + 1 + Len(tag), ">") + 1)
  ELSE 0

\* /\s*<\/div>/gi and /\s*<\/center>/gi
closeTagEnd(str, k, tag) ==
  LET t == skipSpace(str, k) IN
  IF StartsAtNoCase(str, t, "</" \o tag \o ">") THEN t + Len(tag) + 3 ELSE 0

divOpenEnd(str, k) == openTagEnd(str, k, "div")
divCloseEnd(str, k) == closeTagEnd(str, k, "div")
centerOpenEnd(str, k) == openTagEnd(str, k, "center")
centerCloseEnd(str, k) == closeTagEnd(str, k, "center")

dropDivs(str) == replaceAll(divCloseEnd, newline, replaceAll(divOpenEnd, newline, str, 1), 1)
dropCenters(str) ==
  replaceAll(centerCloseEnd, newline, replaceAll(centerOpenEnd, newline, str, 1), 1)

\* /<br\s*\/?>(\s*)/gi
brEnd(str, k) ==
  IF ~StartsAtNoCase(str, k, "<br") THEN 0
  ELSE LET a == skipSpace(str, k + 3)
           b == IF Char(str, a) = "/" THEN a + 1 ELSE a
       IN IF Char(str, b) = ">" THEN skipSpace(str, b + 1) ELSE 0

breaksToNewlines(str) == replaceAll(brEnd, newline, str, 1)

\* /<\/?p[^>]*>/gi
pTagEnd(str, k) ==
  IF Char(str, k) # "<" THEN 0
  ELSE LET a == IF Char(str, k + 1) = "/" THEN k + 2 ELSE k + 1 IN
       IF toLowerChar(Char(str, a)) = "p" /\ skipTo(str, a + 1, ">") <= Len(str)
       THEN skipTo(str, a + 1, ">") + 1
       ELSE 0

dropParagraphTags(str) == replaceAll(pTagEnd, newline, str, 1)

htmlToMarkdown(str) ==
  dropParagraphTags(breaksToNewlines(dropCenters(dropDivs(foldHeadings(str)))))

-----------------------------------------------------------------------------
(* Normalizer, line 141: space after list markers                          *)

isListMarker(c) == c \in {"-", "*", "+"}

\* /^(\s*)([-*+])(\S)/gm
listMarkerEnd(str, k) ==
  LET m == skipSpace(str, k) IN
  IF /\ atLineStart(str, k)
     /\ isListMarker(Char(str, m))
     /\ m + 1 <= Len(str)
     /\ ~isSpace(Char(str, m + 1))
  THEN m + 2
  ELSE 0

\* '$1$2 $3'
listMarkerRepl(str, k, e) == SubSeq(str, k, e - 2) \o " " \o Char(str, e - 1)

spaceAfterListMarker(str) == replaceAll(listMarkerEnd, listMarkerRepl, str, 1)

-----------------------------------------------------------------------------
(* Normalizer, lines 143-149: blank lines before blocks, blank-run collapse *)

RECURSIVE skipChar(_, _, _)
skipChar(str, k, c) ==
  IF k <= Len(str) /\ Char(str, k) = c THEN skipChar(str, k + 1, c) ELSE k

\* ([^\n])\n in front of a block start
afterLineBreak(str, k) ==
  /\ k + 1 <= Len(str)
  /\ Char(str, k) # "\n"
  /\ Char(str, k + 1) = "\n"

\* a heading rule that matches nowhere
beforeNoHeadingEnd(str, k) == 0

\* /([^\n])\n(#{1,6} )/g
beforeHeadingEnd(str, k) ==
  LET h == skipChar(str, k + 2, "#") IN
  IF afterLineBreak(str, k) /\ h - (k + 2) >= 1 /\ h - (k + 2) <= 6 /\ Char(str, h) = " "
  THEN h + 1
  ELSE 0

\* /([^\n])\n(\s*[-*+] )/g
beforeListItemEnd(str, k) ==
  LET m == skipSpace(str, k + 2) IN
  IF afterLineBreak(str, k) /\ isListMarker(Char(str, m)) /\ Char(str, m + 1) = " "
  THEN m + 2
  ELSE 0

\* /([^\n])\n(''')/g
beforeFenceEnd(str, k) ==
  IF afterLineBreak(str, k) /\ StartsAt(str, k + 2, Fence) THEN k + 2 + Len(Fence) ELSE 0

\* /([^\n])\n(> )/g
beforeQuoteEnd(str, k) ==
  IF afterLineBreak(str, k) /\ StartsAt(str, k + 2, "> ") THEN k + 4 ELSE 0

\* '$1\n\n$2'
insertBlankLine(str, k, e) == Char(str, k) \o "\n\n" \o SubSeq(str, k + 2, e - 1)

blankBeforeBlocks(str) ==
  replaceAll(beforeQuoteEnd, insertBlankLine,
    replaceAll(beforeFenceEnd, insertBlankLine,
      replaceAll(beforeListItemEnd, insertBlankLine,
        replaceAll(beforeHeadingEnd, insertBlankLine, str, 1), 1), 1), 1)

\* /\n{3,}/g and /\n\n\n+/g
newlineRunEnd(str, k) ==
  LET e == skipChar(str, k, "\n") IN IF e - k >= 3 THEN e ELSE 0

twoNewlines(str, k, e) == "\n\n"

collapseBlankLines(str) == replaceAll(newlineRunEnd, twoNewlines, str, 1)

-----------------------------------------------------------------------------
(* Normalizer, lines 151-154: code fences                                  *)

LangChars == LowerCase \o UpperCase \o Digits \o "_-"

\* [a-zA-Z0-9_-]
LangCharSet == {Char(LangChars, k) : k \in 1..Len(LangChars)}
isLangChar(c) == c \in LangCharSet

RECURSIVE skipLang(_, _)
skipLang(str, k) ==
  IF k <= Len(str) /\ isLangChar(Char(str, k)) THEN skipLang(str, k + 1) ELSE k

\* /^[ \t]*'''[ \t]*([a-zA-Z0-9_-]+)?[ \t]*$/gm on one line
isFenceLine(ln) ==
  LET a == skipBlank(ln, 1) IN
  /\ StartsAt(ln, a, Fence)
  /\ skipBlank(ln, skipLang(ln, skipBlank(ln, a + Len(Fence)))) = Len(ln) + 1

fenceLang(ln) ==
  LET b == skipBlank(ln, skipBlank(ln, 1) + Len(Fence)) IN SubSeq(ln, b, skipLang(ln, b) - 1)

\* (m, lang) => `\n\n'''${lang ? lang.trim() : ''}\n`
openFenceLine(ln) ==
  IF isFenceLine(ln) THEN "\n\n" \o Fence \o trim(fenceLang(ln)) \o "\n" ELSE ln

\* /^[ \t]*\'\'\'[ \t]*$/gm on one line
closeFenceLine(ln) ==
  LET a == skipBlank(ln, 1) IN
  IF StartsAt(ln, a, Fence) /\ skipBlank(ln, a + Len(Fence)) = Len(ln) + 1
  THEN Fence
  ELSE ln

standardizeFences(str) ==
  collapseBlankLines(
    joinLines(mapLines(closeFenceLine,
      splitLines(joinLines(mapLines(openFenceLine, splitLines(str)))))))

-----------------------------------------------------------------------------
(* Normalizer, lines 157-162: badges                                       *)

ShieldsHost == "://img.shields.io/"

\* /\[\[[^\]]+\]\]\((https?:\/\/img\.shields\.io\/[^)]+)\)/g: the index of the url
shieldUrlStart(str, k) ==
  LET a == skipTo(str, k + 2, "]") IN
  IF StartsAt(str, k, "[[") /\ a > k + 2 /\ StartsAt(str, a, "]](http")
  THEN a + 3
  ELSE 0

shieldEnd(str, k) ==
  LET u == shieldUrlStart(str, k) IN
  IF u = 0 THEN 0
  ELSE LET v == IF Char(str, u + 4) = "s" THEN u + 5 ELSE u + 4
           w == v + Len(ShieldsHost)
           c == skipTo(str, w, ")")
       IN IF StartsAt(str, v, ShieldsHost) /\ c > w /\ c <= Len(str) THEN c + 1 ELSE 0

\* '![]($1)'
shieldRepl(str, k, e) == "![](" \o SubSeq(str, shieldUrlStart(str, k), e - 2) \o ")"

fixShieldBadges(str) == replaceAll(shieldEnd, shieldRepl, str, 1)

\* !\[[^\]]*\]\([^\)]+\) at index k: the index behind the badge, 0 if none
badgeEnd(str, k) ==
  LET a == skipTo(str, k + 2, "]")
      c == skipTo(str, a + 2, ")")
  IN IF /\ StartsAt(str, k, "![")
        /\ StartsAt(str, a, "](")
        /\ c > a + 2
        /\ c <= Len(str)
     THEN c + 1
     ELSE 0

\* /(!\[[^\]]*\]\([^\)]+\))(\s*)(!\[[^\]]*\]\([^\)]+\))/g
badgePairEnd(str, k) ==
  LET e1 == badgeEnd(str, k) IN
  IF e1 = 0 THEN 0 ELSE badgeEnd(str, skipSpace(str, e1))

\* '$1\n$3'
badgePairRepl(str, k, e) ==
  LET e1 == badgeEnd(str, k) IN
  SubSeq(str, k, e1 - 1) \o "\n" \o SubSeq(str, skipSpace(str, e1), e - 1)

splitBadges(str) == replaceAll(badgePairEnd, badgePairRepl, str, 1)

\* the greatest index in lo..hi that holds a newline, 0 if none
RECURSIVE lastNewline(_, _, _)
lastNewline(str, lo, hi) ==
  IF hi < lo THEN 0
  ELSE IF Char(str, hi) = "\n" THEN hi
  ELSE lastNewline(str, lo, hi - 1)

\* one round of (?:^!\[[^\]]*\]\([^\)]+\)\s*\n): the index behind it, 0 if none
badgeLineEnd(str, k) ==
  LET e == IF atLineStart(str, k) THEN badgeEnd(str, k) ELSE 0 IN
  IF e = 0 THEN 0
  ELSE LET n == lastNewline(str, e, skipSpace(str, e) - 1) IN
       IF n = 0 THEN 0 ELSE n + 1

\* {2,}: as many rounds as match, at least two
RECURSIVE badgeRunFrom(_, _, _)
badgeRunFrom(str, k, rounds) ==
  LET e == badgeLineEnd(str, k) IN
  IF e = 0 THEN (IF rounds >= 2 THEN k ELSE 0)
  ELSE badgeRunFrom(str, e, rounds + 1)

\* /(?:^!\[[^\]]*\]\([^\)]+\)\s*\n){2,}/gm
badgeRunEnd(str, k) == badgeRunFrom(str, k, 0)

anyNewlinesEnd(str, k) == IF Char(str, k) = "\n" THEN skipChar(str, k, "\n") ELSE 0

oneSpace(str, k, e) == " "

\* (block) => block.trim().split(/\n+/).join(' ') + "\n\n"
badgeRunRepl(str, k, e) ==
  replaceAll(anyNewlinesEnd, oneSpace, trim(SubSeq(str, k, e - 1)), 1) \o "\n\n"

mergeBadgeLines(str) == replaceAll(badgeRunEnd, badgeRunRepl, str, 1)

-----------------------------------------------------------------------------
(* Normalizer, lines 165-171: table separator and blank lines by regex     *)

\* header.split('|').filter(Boolean).length
countColumns(header) ==
  Cardinality({k \in 1..Len(header) :
                 Char(header, k) # "|" /\ (k = 1 \/ Char(header, k - 1) = "|")})

\* '|' + Array(cols).fill('---').join('|') + '|'
separatorRow(cols) == "|" \o (IF cols = 0 THEN "" ELSE repeat("---|", cols - 1) \o "---") \o "|"

\* (?!\|?\s*-) at index k
separatorAhead(str, k) ==
  \/ Char(str, k) = "|" /\ Char(str, skipSpace(str, k + 1)) = "-"
  \/ Char(str, skipSpace(str, k)) = "-"

\* /\n(\|[^\n]*\|)\n(?!\|?\s*-)/g
headerLineEnd(str, k) ==
  LET eol == skipTo(str, k + 1, "\n") IN
  IF /\ Char(str, k) = "\n"
     /\ Char(str, k + 1) = "|"
     /\ eol <= Len(str)
     /\ eol - (k + 1) >= 2
     /\ Char(str, eol - 1) = "|"
     /\ ~separatorAhead(str, eol + 1)
  THEN eol + 1
  ELSE 0

\* `\n${header}\n${sep}\n`
headerLineRepl(str, k, e) ==
  LET header == SubSeq(str, k + 1, e - 2) IN
  "\n" \o header \o "\n" \o separatorRow(countColumns(header)) \o "\n"

synthesizeSeparators(str) == replaceAll(headerLineEnd, headerLineRepl, str, 1)

\* [\s\S]*?(?=\n\n|$) from index k: the first index that is followed by an
\* empty line or is the end of the text
RECURSIVE skipToBlankLine(_, _)
skipToBlankLine(str, k) ==
  IF k > Len(str) \/ StartsAt(str, k, "\n\n") THEN k ELSE skipToBlankLine(str, k + 1)

\* /\n([^\n]*\|[^\n]*\n\s*\|?\s*-+[^\n]*\n[\s\S]*?(?=\n\n|$))/g
tableTextEnd(str, k) ==
  LET eol1 == skipTo(str, k + 1, "\n")
      a == skipSpace(str, eol1 + 1)
      b == IF Char(str, a) = "|" THEN skipSpace(str, a + 1) ELSE a
      eol2 == skipTo(str, b, "\n")
  IN IF /\ Char(str, k) = "\n"
        /\ eol1 <= Len(str)
        /\ skipTo(str, k + 1, "|") < eol1
        /\ Char(str, b) = "-"
        /\ eol2 <= Len(str)
     THEN skipToBlankLine(str, eol2 + 1)
     ELSE 0

\* (m, tbl) => `\n\n${tbl}\n\n`
tableTextRepl(str, k, e) == "\n\n" \o SubSeq(str, k + 1, e - 1) \o "\n\n"

blankAroundTables(str) == replaceAll(tableTextEnd, tableTextRepl, str, 1)

-----------------------------------------------------------------------------
(* Normalizer, lines 173-202: table reconstruction, line by line           *)

\* /^\s*\|.*\|\s*$/
isTableLine(ln) ==
  LET t == trim(ln) IN Len(t) >= 2 /\ Char(t, 1) = "|" /\ Char(t, Len(t)) = "|"

\* ^\s*\|?\s* matches exactly ln[1 .. d-1]
sepPrefix(ln, d) ==
  LET a == skipSpace(ln, 1) IN
  \/ a >= d
  \/ a < d /\ Char(ln, a) = "|" /\ skipSpace(ln, a + 1) >= d

\* /^\s*\|?\s*[-: ]+\|[-:| ]+.*$/
isSepLine(ln) ==
  \E j \in 2..Len(ln) :
    /\ Char(ln, j) = "|"
    /\ Char(ln, j + 1) \in {"-", ":", "|", " "}
    /\ \E d \in 1..(j - 1) :
         /\ \A x \in d..(j - 1) : Char(ln, x) \in {"-", ":", " "}
         /\ sepPrefix(ln, d)

\* a run that a blank line ends
continuesRunUntilBlank(ln) == isTableLine(ln) \/ isSepLine(ln)

\* the condition of the inner while, line 182
continuesRun(ln) == isTableLine(ln) \/ isSepLine(ln) \/ trim(ln) = ""

\* a flush that adds no separator row
fixBlockAsIs(blk) == blk

\* lines 187-191
fixBlock(blk) ==
  LET header == blk[1]
      hasSep == Len(blk) >= 2 /\ isSepLine(blk[2])
      sep == separatorRow(countColumns(header))
  IN IF hasSep THEN blk ELSE <<header, sep>> \o Tail(blk)

\* a flush that emits the first buffered line only
flushFirstLineOnly(o, blk) == IF blk = <<>> THEN o ELSE o \o <<blk[1], "">>

\* lines 186-195
flushBlock(o, blk) ==
  IF blk = <<>> THEN o
  ELSE (IF o # <<>> /\ o[Len(o)] # "" THEN Append(o, "") ELSE o) \o fixBlock(blk) \o <<"">>

-----------------------------------------------------------------------------
(* Normalizer, lines 204-205                                               *)

RECURSIVE trimLineEnd(_)
trimLineEnd(ln) ==
  IF ln # "" /\ isBlank(Char(ln, Len(ln))) THEN trimLineEnd(SubSeq(ln, 1, Len(ln) - 1)) ELSE ln

\* s.replace(/[ \t]+$/gm, '')
trimTrailingWhitespace(str) == joinLines(mapLines(trimLineEnd, splitLines(str)))

\* a return that only appends the newline
frameUntrimmed(str) == str \o "\n"

\* s.trim() + '\n'
frame(str) == trim(str) \o "\n"

-----------------------------------------------------------------------------
(* Normalizer: input texts                                                 *)

MaxCols == 3     \* columns of a generated table
MaxRows == 2     \* data rows of a generated table
MaxBadges == 3   \* badges of a generated badge group

\* "| c1 | c2 |" for the cells c1, c2, ...
RECURSIVE rowOf(_)
rowOf(cells) == IF cells = <<>> THEN "|" ELSE "| " \o Head(cells) \o " " \o rowOf(Tail(cells))

HeaderCells == "ABCDEFGH"
headerRow(cols) == rowOf([c \in 1..cols |-> Char(HeaderCells, c)])

\* data row r of a table of cols columns: cells 1 2 3 / 4 5 6 / ...
dataRow(cols, r) == rowOf([c \in 1..cols |-> Char(Digits, (((r - 1) * cols + c) % 10) + 1)])

dashRow(cols) == "|" \o repeat("---|", cols)

\* The lines of a table: header, separator row if withSep, then the data rows,
\* with an empty line in front of data row blankAt (0: no empty line).
tableLines(cols, withSep, rows, blankAt) ==
  <<headerRow(cols)>>
    \o (IF withSep THEN <<dashRow(cols)>> ELSE <<>>)
    \o (IF blankAt = 0 THEN [r \in 1..rows |-> dataRow(cols, r)]
        ELSE [r \in 1..(blankAt - 1) |-> dataRow(cols, r)]
               \o <<"">>
               \o [r \in 1..(rows - blankAt + 1) |-> dataRow(cols, blankAt - 1 + r)])

Tables ==
  {tableLines(cols, withSep, rows, blankAt) :
     cols \in 2..MaxCols, withSep \in BOOLEAN, rows \in 0..MaxRows, blankAt \in 0..MaxRows}

OddTables ==
  { <<"| A | B |", "| - | 2 |">>,
    <<"| A || B |", "| 1 | 2 |">>,
    <<"| A |  | B |", "| 1 | 2 | 3 |">>,
    <<"  | A | B |  ", "|:--|--:|", " | 1 | 2 |\t">>,
    <<"a | b", "--- | ---", "1 | 2">>,
    <<"| A | B |", "--- | ---", "| 1 | 2 |">> }

BadgeAlts == "abcdefgh"
BadgeUrls == "stuvwxyz"
badge(n) == "![" \o Char(BadgeAlts, n) \o "](" \o Char(BadgeUrls, n) \o ")"

RECURSIVE joinWith(_, _)
joinWith(ls, sep) ==
  IF ls = <<>> THEN ""
  ELSE IF Len(ls) = 1 THEN ls[1]
  ELSE ls[1] \o sep \o joinWith(Tail(ls), sep)

BadgeGroups ==
  {[k \in 1..n |-> badge(k)] : n \in 1..MaxBadges}
    \cup {<<joinWith([k \in 1..n |-> badge(k)], sep)>> : n \in 2..MaxBadges, sep \in {"", " "}}
    \cup {<<"[[s]](https://img.shields.io/x)">>}
    \cup {<<badge(1) \o " " \o badge(2), badge(3)>>}

CodeBlocks ==
  { <<"'''js", "c", "'''">>,
    <<"'''", "-x", "| a |", "'''">>,
    <<"''' py ", "c", "  '''  ">> }

HtmlBlocks ==
  { <<"<h2>T</h2>y">>,
    <<"<H1 id=\"t\"> T </H1>">>,
    <<"<div align=\"c\">", "x", "</div>">>,
    <<"a<br>b<br />c">>,
    <<"<p>x</p>">>,
    <<"<center>x</center>">>,
    <<"z<h6>S</h6>">> }

TextBlocks ==
  { <<>>, <<"  ">>, <<"x">>, <<"x", "", "", "", "z">>,
    <<"-x">>, <<"- ok">>, <<"---">>, <<"**b**">>, <<"* a", "*b">>, <<"+c  ">>,
    <<"> q">>, <<"# T">>, <<"#x">> }

Cores == Tables \cup OddTables \cup BadgeGroups \cup CodeBlocks \cup HtmlBlocks \cup TextBlocks

Prefixes == {<<>>, <<"x">>, <<"x", "">>}
Suffixes == {<<>>, <<"y">>, <<"", "y">>}

\* The route hands over a trimmed text (line 516), which ends without a
\* newline; a text that ends with one is what a call on a returned text gets.
LineEnds == {"", "\n"}

Docs ==
  {joinLines(p \o c \o q) \o e : p \in Prefixes, c \in Cores, q \in Suffixes, e \in LineEnds}
    \cup {joinLines(<<Fence \o "markdown">> \o c \o <<Fence>>) \o e : c \in Cores, e \in LineEnds}

-----------------------------------------------------------------------------
(* Normalizer: the steps of normalizeMarkdown                              *)

SelIdle ==
  /\ tree = <<>> /\ scored = <<>> /\ pos = 0 /\ selected = <<>> /\ total = 0

ScanReset == lines = <<>> /\ out = <<>> /\ i = 0 /\ block = <<>>

\* line 123: let s = input || ''
InitNormalizer ==
  /\ pc = "strip"
  /\ input \in Docs
  /\ s = input
  /\ round = 1
  /\ ScanReset
  /\ SelIdle

\* line 126
StripOuterFence ==
  /\ pc = "strip"
  /\ s' = stripOuterFence(s)
  /\ pc' = "html"
  /\ UNCHANGED <<input, lines, out, i, block, round>>
  /\ UNCHANGED selVars

\* lines 129-139
HtmlToMarkdown ==
  /\ pc = "html"
  /\ s' = htmlToMarkdown(s)
  /\ pc' = "list"
  /\ UNCHANGED <<input, lines, out, i, block, round>>
  /\ UNCHANGED selVars

\* line 141
ListMarkerSpacing ==
  /\ pc = "list"
  /\ s' = spaceAfterListMarker(s)
  /\ pc' = "blank"
  /\ UNCHANGED <<input, lines, out, i, block, round>>
  /\ UNCHANGED selVars

\* lines 143-147
BlankBeforeBlocks ==
  /\ pc = "blank"
  /\ s' = blankBeforeBlocks(s)
  /\ pc' = "collapse"
  /\ UNCHANGED <<input, lines, out, i, block, round>>
  /\ UNCHANGED selVars

\* line 149
CollapseBlankLines ==
  /\ pc = "collapse"
  /\ s' = collapseBlankLines(s)
  /\ pc' = "fences"
  /\ UNCHANGED <<input, lines, out, i, block, round>>
  /\ UNCHANGED selVars

\* lines 151-154
StandardizeFences ==
  /\ pc = "fences"
  /\ s' = standardizeFences(s)
  /\ pc' = "shields"
  /\ UNCHANGED <<input, lines, out, i, block, round>>
  /\ UNCHANGED selVars

\* line 157
FixShieldBadges ==
  /\ pc = "shields"
  /\ s' = fixShieldBadges(s)
  /\ pc' = "badgesplit"
  /\ UNCHANGED <<input, lines, out, i, block, round>>
  /\ UNCHANGED selVars

\* line 159
SplitBadges ==
  /\ pc = "badgesplit"
  /\ s' = splitBadges(s)
  /\ pc' = "badgemerge"
  /\ UNCHANGED <<input, lines, out, i, block, round>>
  /\ UNCHANGED selVars

\* the merge followed by the split once more
MergeThenSplitAgain ==
  /\ pc = "badgemerge"
  /\ s' = splitBadges(mergeBadgeLines(s))
  /\ pc' = "separators"
  /\ UNCHANGED <<input, lines, out, i, block, round>>
  /\ UNCHANGED selVars

\* line 162
MergeBadgeLines ==
  /\ pc = "badgemerge"
  /\ s' = mergeBadgeLines(s)
  /\ pc' = "separators"
  /\ UNCHANGED <<input, lines, out, i, block, round>>
  /\ UNCHANGED selVars

\* lines 165-169
SynthesizeSeparators ==
  /\ pc = "separators"
  /\ s' = synthesizeSeparators(s)
  /\ pc' = "around"
  /\ UNCHANGED <<input, lines, out, i, block, round>>
  /\ UNCHANGED selVars

\* line 171
BlankAroundTables ==
  /\ pc = "around"
  /\ s' = blankAroundTables(s)
  /\ pc' = "split"
  /\ UNCHANGED <<input, lines, out, i, block, round>>
  /\ UNCHANGED selVars

\* lines 174-176; the model's i is the code's i + 1
SplitLines ==
  /\ pc = "split"
  /\ lines' = splitLines(s)
  /\ out' = <<>>
  /\ i' = 1
  /\ pc' = "scan"
  /\ UNCHANGED <<input, s, block, round>>
  /\ UNCHANGED selVars

\* a push that trims the line
ScanPushTrimmed ==
  /\ pc = "scan"
  /\ i <= Len(lines)
  /\ ~isTableLine(lines[i])
  /\ out' = Append(out, trim(lines[i]))
  /\ i' = i + 1
  /\ UNCHANGED <<pc, input, s, lines, block, round>>
  /\ UNCHANGED selVars

\* lines 198-199
ScanPush ==
  /\ pc = "scan"
  /\ i <= Len(lines)
  /\ ~isTableLine(lines[i])
  /\ out' = Append(out, lines[i])
  /\ i' = i + 1
  /\ UNCHANGED <<pc, input, s, lines, block, round>>
  /\ UNCHANGED selVars

\* lines 180-181
RunStart ==
  /\ pc = "scan"
  /\ i <= Len(lines)
  /\ isTableLine(lines[i])
  /\ block' = <<>>
  /\ pc' = "run"
  /\ UNCHANGED <<input, s, lines, out, i, round>>
  /\ UNCHANGED selVars

\* lines 182-184, a line that is not blank
RunAbsorb ==
  /\ pc = "run"
  /\ i <= Len(lines)
  /\ continuesRun(lines[i])
  /\ trim(lines[i]) # ""
  /\ block' = Append(block, trim(lines[i]))
  /\ i' = i + 1
  /\ UNCHANGED <<pc, input, s, lines, out, round>>
  /\ UNCHANGED selVars

\* lines 182-184, a blank line
RunDropBlank ==
  /\ pc = "run"
  /\ i <= Len(lines)
  /\ continuesRun(lines[i])
  /\ trim(lines[i]) = ""
  /\ i' = i + 1
  /\ UNCHANGED <<pc, input, s, lines, out, block, round>>
  /\ UNCHANGED selVars

\* lines 186-196
RunFlush ==
  /\ pc = "run"
  /\ ~(i <= Len(lines) /\ continuesRun(lines[i]))
  /\ out' = flushBlock(out, block)
  /\ block' = <<>>
  /\ pc' = "scan"
  /\ UNCHANGED <<input, s, lines, i, round>>
  /\ UNCHANGED selVars

\* line 201
ScanEnd ==
  /\ pc = "scan"
  /\ i > Len(lines)
  /\ s' = joinLines(out)
  /\ pc' = "trim"
  /\ UNCHANGED <<input, lines, out, i, block, round>>
  /\ UNCHANGED selVars

\* line 204
TrimTrailingWhitespace ==
  /\ pc = "trim"
  /\ s' = trimTrailingWhitespace(s)
  /\ pc' = "frame"
  /\ UNCHANGED <<input, lines, out, i, block, round>>
  /\ UNCHANGED selVars

\* line 205
Frame ==
  /\ pc = "frame"
  /\ s' = frame(s)
  /\ pc' = "done"
  /\ UNCHANGED <<input, lines, out, i, block, round>>
  /\ UNCHANGED selVars

NextNormalizer ==
  \/ StripOuterFence \/ HtmlToMarkdown \/ ListMarkerSpacing \/ BlankBeforeBlocks
  \/ CollapseBlankLines \/ StandardizeFences \/ FixShieldBadges \/ SplitBadges
  \/ MergeBadgeLines \/ SynthesizeSeparators \/ BlankAroundTables
  \/ SplitLines \/ ScanPush \/ RunStart \/ RunAbsorb \/ RunDropBlank \/ RunFlush \/ ScanEnd
  \/ TrimTrailingWhitespace \/ Frame

SpecNormalizer == InitNormalizer /\ [][NextNormalizer]_vars


\* normalizeMarkdown called on the text the first call returned
NormalizeAgain ==
  /\ pc = "done"
  /\ round = 1
  /\ input' = s
  /\ round' = 2
  /\ pc' = "strip"
  /\ lines' = <<>> /\ out' = <<>> /\ i' = 0 /\ block' = <<>>
  /\ UNCHANGED s
  /\ UNCHANGED selVars

NextNormalizeTwice == NextNormalizer \/ NormalizeAgain

SpecNormalizeTwice == InitNormalizer /\ [][NextNormalizeTwice]_vars

-----------------------------------------------------------------------------
(* ======== Claims ======== *)

(* ---- Selector claims (checked under SpecSelector) ---- *)

pathsOf(sq) == [k \in 1..Len(sq) |-> sq[k].path]
scoresOf(sq) == [k \in 1..Len(sq) |-> sq[k].score]

\* C1: at every step of the selection loop and in the returned list, the
\* number of selected files is at most MAX_FILES, and both the sum of their
\* sizes and the running total are at most MAX_TOTAL_BYTES.
C1_BudgetInvariant ==
  /\ Len(selected) <= MAX_FILES
  /\ sumSizes(selected) <= MAX_TOTAL_BYTES
  /\ total <= MAX_TOTAL_BYTES

\* C1 witness: a tree of more than MAX_FILES files whose selection ends with
\* exactly MAX_FILES files that fill the byte budget to the last byte.
C1_Witness ==
  /\ pc = "return"
  /\ Len(scored) > MAX_FILES
  /\ Len(selected) = MAX_FILES
  /\ sumSizes(selected) = MAX_TOTAL_BYTES

\* C2: no selected entry is larger than MAX_SINGLE_BYTES; every selected entry
\* is an entry of the tree with its own size (nothing truncated or put in its
\* place); and the loop ends only at the end of the list or at the file
\* limit, never at an oversized file.
C2_ExclusionInvariant ==
  /\ \A k \in 1..Len(selected) : selected[k].size <= MAX_SINGLE_BYTES
  /\ \A k \in 1..Len(selected) :
       \E n \in 1..Len(tree) :
         /\ tree[n].path = selected[k].path
         /\ sizeOf(tree[n]) = selected[k].size
  /\ pc = "return" => (pos > Len(scored) \/ Len(selected) >= MAX_FILES)

\* C2 witness: an oversized file was passed over and a file behind it in the
\* scan order was selected.
C2_Witness ==
  /\ pc = "return"
  /\ \E a \in 1..Len(scored) : \E b \in 1..Len(scored) :
       /\ a < b
       /\ sizeOf(scored[a]) > MAX_SINGLE_BYTES
       /\ scored[a].path \notin {selected[k].path : k \in 1..Len(selected)}
       /\ scored[b].path \in {selected[k].path : k \in 1..Len(selected)}

\* C3: the order in which the loop scans the files (fixed when the loop is
\* entered) is by descending score, and files of equal score keep the order
\* they have in the input.
C3_StableTieBreak ==
  (pc = "loop" /\ pos = 1) =>
    /\ \A a \in 1..Len(scored) : \A b \in 1..Len(scored) :
         a < b => scored[a].score >= scored[b].score
    /\ \A v \in {scored[k].score : k \in 1..Len(scored)} :
         SelectSeq(scored, LAMBDA e : e.score = v)
           = SelectSeq(mapScore(filterFiles(tree)), LAMBDA e : e.score = v)

\* C3 witness: two different files of equal score, both selected, the one that
\* is first in the input first in the result.
C3_Witness ==
  /\ pc = "return"
  /\ \E a \in 1..Len(selected) : \E b \in 1..Len(selected) :
       /\ a < b
       /\ selected[a].path # selected[b].path
       /\ scoreOf(selected[a].path) = scoreOf(selected[b].path)
       /\ \E m \in 1..Len(tree) : \E n \in 1..Len(tree) :
            m < n /\ tree[m].path = selected[a].path /\ tree[n].path = selected[b].path

\* C10 as stated: README.md, docs/guide.md, src/a.ts are selected in this
\* order with scores 140, 45 and 5.
C10_AsStated ==
  (tree = ExampleTree /\ pc = "return") =>
    /\ pathsOf(selected) = <<"README.md", "docs/guide.md", "src/a.ts">>
    /\ scoresOf(scored) = <<140, 45, 5>>

\* C10 amended: README.md, docs/guide.md, src/a.ts are selected in this order
\* with scores 160 (100 + 20 + 25 + 15), 45 and 5.
C10_RankingExample ==
  (tree = ExampleTree /\ pc = "return") =>
    /\ pathsOf(selected) = <<"README.md", "docs/guide.md", "src/a.ts">>
    /\ scoresOf(scored) = <<160, 45, 5>>

\* C10 witness: the example tree has been selected from.
C10_Witness ==
  /\ tree = ExampleTree
  /\ pc = "return"
  /\ Len(selected) = Len(ExampleTree)


\* the part of a path behind its last slash, and the part from its last dot on
lastSegment(path) ==
  LET cut == {k \in 0..Len(path) : k = 0 \/ Char(path, k) = "/"}
  IN SubSeq(path, (CHOOSE k \in cut : \A m \in cut : m <= k) + 1, Len(path))

extensionOf(path) ==
  LET dots == {k \in 1..Len(path) : Char(path, k) = "."}
  IN IF dots = {} THEN "" ELSE SubSeq(path, CHOOSE k \in dots : \A m \in dots : m <= k, Len(path))

allowlisted(path) ==
  lastSegment(path) \in importantNames \/ extensionOf(path) \in exts

\* C12: every entry that is scored, and so every entry of the result, is a
\* file of the tree (never a directory) whose base name is an important name
\* or whose extension is a recognized one; a file that is neither is never
\* scored and never in the result, also when the budgets leave room for it.
C12_AllowlistFilter ==
  /\ \A k \in 1..Len(scored) :
       /\ allowlisted(scored[k].path)
       /\ \E n \in 1..Len(tree) : tree[n].path = scored[k].path /\ tree[n].type = "blob"
  /\ \A k \in 1..Len(selected) :
       /\ allowlisted(selected[k].path)
       /\ \E n \in 1..Len(tree) : tree[n].path = selected[k].path /\ tree[n].type = "blob"

\* C12 witness: a file outside the allowlist and a directory with a recognized
\* extension are in the tree, the result has room in files and bytes for
\* them, and neither is in it.
C12_Witness ==
  /\ pc = "return"
  /\ tree = << [path |-> "logo.png", type |-> "blob", size |-> 500],
               [path |-> "vendor/chart.js", type |-> "tree"] >>
  /\ selected = <<>>
  /\ total = 0

\* C13: a missing size counts as zero bytes. At the turn of an entry without a
\* size the loop either accepts it, reporting size 0 and leaving the running
\* total as it is, or ends because MAX_FILES entries are already accepted; it
\* never passes the entry over.
C13_MissingSizeIsZero ==
  [][(pc = "loop" /\ pos <= Len(scored) /\ "size" \notin DOMAIN scored[pos]) =>
       \/ /\ selected' = Append(selected, [path |-> scored[pos].path, size |-> 0])
          /\ total' = total
          /\ pos' = pos + 1
          /\ pc' = "loop"
       \/ /\ Len(selected) >= MAX_FILES
          /\ pc' = "return"
          /\ selected' = selected]_vars

\* C13 witness: the byte budget is used up to the last byte and the file
\* without a size behind the files that used it up is in the result, with
\* size 0; the file of one byte behind it is not.
C13_Witness ==
  /\ pc = "return"
  /\ tree = FullBudgetTree
  /\ total = MAX_TOTAL_BYTES
  /\ Len(selected) = 5
  /\ selected[5] = [path |-> "lib/x.py", size |-> 0]

\* the size the loop works with at position k
sizeAt(k) == IF "size" \in DOMAIN scored[k] THEN scored[k].size ELSE 0

\* C14: the selection is one greedy pass. The loop visits the entries once, in
\* descending order of score. At the turn of an entry: when MAX_FILES entries
\* are accepted the loop ends; otherwise an entry over the single-file limit
\* or over what is left of the byte budget is passed over and the loop goes on
\* with the next entry; otherwise the entry is accepted. So a file absent from
\* the result was, at its turn, too large, over the budget left, or behind
\* MAX_FILES acceptances.
C14_GreedySinglePass ==
  /\ [](pc \in {"loop", "return"} =>
          \A a \in 1..Len(scored) : \A b \in 1..Len(scored) :
            a < b => scored[a].score >= scored[b].score)
  /\ [][(pc = "loop" /\ pos <= Len(scored)) =>
          IF Len(selected) >= MAX_FILES
          THEN pc' = "return" /\ selected' = selected /\ total' = total
          ELSE /\ pc' = "loop"
               /\ pos' = pos + 1
               /\ scored' = scored
               /\ IF sizeAt(pos) > MAX_SINGLE_BYTES \/ total + sizeAt(pos) > MAX_TOTAL_BYTES
                  THEN selected' = selected /\ total' = total
                  ELSE /\ selected' = Append(selected, [path |-> scored[pos].path,
                                                         size |-> sizeAt(pos)])
                       /\ total' = total + sizeAt(pos)]_vars

\* C14 witness: the fourth generated file did not fit the budget left and was
\* passed over, and the smaller file scored below it was accepted after it.
C14_Witness ==
  /\ pc = "return"
  /\ tree = GreedyTree
  /\ pathsOf(selected) = <<"src/a.ts", "src/f01.js", "src/f02.js", "src/f03.js", "lib/y.py">>
  /\ total = 550001

\* the sum of the scoring rules other than the manifest rule
otherRules(path) ==
  LET p == toLowerCase(path) IN
    (IF p = "readme.md" THEN 100 ELSE 0)
  + (IF includes(p, "readme") THEN 20 ELSE 0)
  + (IF startsWith(p, "docs/") THEN 30 ELSE 0)
  + (IF ~includes(p, "/") THEN 25 ELSE 0)
  + (IF endsWith(p, ".md") THEN 15 ELSE 0)
  + (IF endsWith(p, "dockerfile") THEN 20 ELSE 0)
  + (IF endsWith(p, ".ts") \/ endsWith(p, ".tsx") \/ endsWith(p, ".js") \/ endsWith(p, ".jsx")
     THEN 5 ELSE 0)

\* C15: a scored file has the manifest bonus of 40 exactly when its base name
\* is package.json, and the bonus comes on top of what the other rules give.
C15_ManifestRule ==
  \A k \in 1..Len(scored) :
    scored[k].score
      = otherRules(scored[k].path)
          + (IF toLowerCase(lastSegment(scored[k].path)) = "package.json" THEN 40 ELSE 0)

\* C15 witness: a file whose base name is my-package.json has been scored 40,
\* and package.json in the root 65 (25 for the root, 40 for the manifest).
C15_Witness ==
  /\ pc = "return"
  /\ pathsOf(scored) = <<"package.json", "lib/my-package.json">>
  /\ scoresOf(scored) = <<65, 40>>

-----------------------------------------------------------------------------
(* Claims about normalizeMarkdown                                          *)

\* the lines of the text held in s
outLines == splitLines(s)

\* line b stands directly below line a
directlyBelow(ls, a, b) == \E k \in 1..(Len(ls) - 1) : ls[k] = a /\ ls[k + 1] = b

\* a text in one of the surroundings of Docs
inContext(c) == {joinLines(p \o c \o q) \o e : p \in Prefixes, q \in Suffixes, e \in LineEnds}

\* a text wrapped into a fence tagged markdown
wrapped(c, e) == joinLines(<<Fence \o "markdown">> \o c \o <<Fence>>) \o e

(* C4: normalizeMarkdown is idempotent: called on a text it returned, it
   returns that text unchanged. *)
C4_Idempotent == (pc = "done" /\ round = 2) => s = input

C4_Witness ==
  /\ pc = "done"
  /\ round = 2
  /\ input = "| A | B |\n|---|---|\n| 1 | 2 |\n"
  /\ s = "| A | B |\n|---|---|\n|---|---|\n| 1 | 2 |\n"

WellFormedTable3 == tableLines(3, TRUE, 2, 0)

(* C5: a well-formed table of three columns (header row, separator row, two
   data rows) is returned as it came, whitespace at its ends aside: no row is
   added, removed, duplicated or reordered. *)
C5_TableRoundTrip ==
  (pc = "done" /\ input \in {joinLines(WellFormedTable3) \o e : e \in LineEnds})
    => trim(s) = trim(input)

C5_Witness ==
  /\ pc = "done"
  /\ input = joinLines(WellFormedTable3)
  /\ outLines = <<"| A | B | C |", "|---|---|---|", "|---|---|---|",
                  "| 1 | 2 | 3 |", "| 4 | 5 | 6 |", "">>

\* header row directly followed by data rows whose cells are letters and digits
NoSeparatorDocs(cols) ==
  UNION {inContext(tableLines(cols, FALSE, rows, 0)) \cup
           {wrapped(tableLines(cols, FALSE, rows, 0), e) : e \in LineEnds} :
         rows \in 1..MaxRows}

(* C6: for a table given without a separator row, the header row directly
   followed by the data rows, the returned text has the header row once, and
   the line directly below it is a separator row of one --- cell per column
   of the header. *)
C6_TableSynthesis ==
  \A cols \in 2..MaxCols :
    (pc = "done" /\ input \in NoSeparatorDocs(cols)) =>
      /\ \E k \in 1..Len(outLines) : outLines[k] = headerRow(cols)
      /\ \A k \in 1..Len(outLines) :
           outLines[k] = headerRow(cols) =>
             k < Len(outLines) /\ outLines[k + 1] = dashRow(cols)

C6_Witness ==
  /\ pc = "done"
  /\ input = "| A | B |\n| 1 | 2 |\n"
  /\ directlyBelow(outLines, "| A | B |", "|---|---|")

\* a table with an empty line in front of data row b, b > 1
BlankInTableDocs(cols, withSep, rows, b) ==
  inContext(tableLines(cols, withSep, rows, b)) \cup
    {wrapped(tableLines(cols, withSep, rows, b), e) : e \in LineEnds}

\* the header row and the data rows of a text, in the order of the text
rowsOf(ls, cols, rows) ==
  SelectSeq(ls, LAMBDA ln : ln \in {headerRow(cols)} \cup {dataRow(cols, r) : r \in 1..rows})

(* C7: a table with a stray blank line between two data rows comes out as one
   block of lines without a blank line in it: the header row and every data
   row occur once, in the order of the input, and no line from the header row
   to the last data row is blank. *)
C7_BlankLineInTable ==
  \A cols \in 2..MaxCols, withSep \in BOOLEAN, rows \in 2..MaxRows :
    \A b \in 2..rows :
      (pc = "done" /\ input \in BlankInTableDocs(cols, withSep, rows, b)) =>
        /\ rowsOf(outLines, cols, rows)
             = <<headerRow(cols)>> \o [r \in 1..rows |-> dataRow(cols, r)]
        /\ \A j, k \in 1..Len(outLines) :
             (outLines[j] = headerRow(cols) /\ outLines[k] = dataRow(cols, rows)) =>
               \A m \in j..k : outLines[m] # ""

C7_Witness ==
  /\ pc = "done"
  /\ input = "| A | B |\n|---|---|\n| 1 | 2 |\n\n| 3 | 4 |\n"
  /\ directlyBelow(outLines, "| 1 | 2 |", "| 3 | 4 |")

ThreeBadgeLines == <<"![a](s)", "![b](t)", "![c](u)">>

(* C8: three consecutive lines of one badge each come out as one line with
   the three badges in their order, one space between them, whether or not a
   newline follows the last of the three lines. *)
C8_BadgeMerge ==
  (pc = "done" /\ input \in {joinLines(p \o ThreeBadgeLines) \o e :
                                p \in Prefixes, e \in LineEnds})
    => \E k \in 1..Len(outLines) : outLines[k] = "![a](s) ![b](t) ![c](u)"

C8_Witness ==
  /\ pc = "done"
  /\ input = "![a](s)\n![b](t)\n![c](u)"
  /\ s = "![a](s) ![b](t)\n\n![c](u)\n"

\* the number of lines of a text that open or close a fence
fenceLineCount(str) ==
  Cardinality({k \in 1..Len(splitLines(str)) : startsWith(trimStart(splitLines(str)[k]), Fence)})

(* C9: the first pass takes the two lines of a fence tagged markdown away
   when the whole text is wrapped in it, and nothing else; of a text that
   does not open with such a fence it takes no fence line away. *)
C9_OuterFenceStrip ==
  pc = "html" =>
    /\ \A c \in Cores, e \in LineEnds : input = wrapped(c, e) => s = joinLines(c)
    /\ ~StartsAtNoCase(input, 1, Fence \o "markdown") =>
         fenceLineCount(s) = fenceLineCount(input)

C9_Witness ==
  /\ pc = "html"
  /\ input = "x\n'''js\nc\n'''"
  /\ s = "x\n'''js\nc"

\* a text without a leading blank line that ends with exactly one newline
framed(str) ==
  \/ str = "\n"
  \/ /\ Len(str) >= 2
     /\ Char(str, Len(str)) = "\n"
     /\ Char(str, Len(str) - 1) # "\n"
     /\ trim(splitLines(str)[1]) # ""

\* the positions of the function in the order it passes them (the scan loop,
\* positions scan and run, is one of them)
Stages ==
  <<"strip", "html", "list", "blank", "collapse", "fences", "shields", "badgesplit",
    "badgemerge", "separators", "around", "split", "scan", "trim", "frame", "done">>

\* how many positions lie ahead; 0 at the return
stagesLeft ==
  LET at == IF pc = "run" THEN "scan" ELSE pc
  IN Len(Stages) - (CHOOSE k \in 1..Len(Stages) : Stages[k] = at)

\* a bound on the steps the scan loop has still to make
loopLeft ==
  IF pc \notin {"scan", "run"} THEN 0
  ELSE 3 * (Len(lines) + 1 - i)
         + (IF pc = "scan" THEN 1 ELSE IF block = <<>> THEN 0 ELSE 2)

(* C11: normalizeMarkdown is total and frames what it returns: for every
   input, the empty and the whitespace-only text included, the call comes to
   its return (every step lowers the pair of positions ahead and loop steps
   left, which cannot fall below zero), and the returned text has no leading blank line and ends with
   exactly one newline; for the empty input it is "\n". *)
C11_TotalAndFramed ==
  /\ [](pc = "done" => framed(s) /\ (input = "" => s = "\n"))
  /\ [](stagesLeft \in 0..Len(Stages) /\ loopLeft \in Nat)
  /\ [][\/ stagesLeft' < stagesLeft
        \/ stagesLeft' = stagesLeft /\ loopLeft' < loopLeft]_vars

C11_Witness ==
  /\ pc = "done"
  /\ input = ""
  /\ s = "\n"


RECURSIVE isSubsequence(_, _)
isSubsequence(a, b) ==
  IF a = <<>> THEN TRUE
  ELSE IF b = <<>> THEN FALSE
  ELSE IF Head(a) = Head(b) THEN isSubsequence(Tail(a), Tail(b))
  ELSE isSubsequence(a, Tail(b))

\* a line of pipes, dashes, colons and spaces only, with a dash in it
isDashRow(ln) ==
  /\ \A k \in 1..Len(ln) : Char(ln, k) \in {"|", "-", ":", " "}
  /\ \E k \in 1..Len(ln) : Char(ln, k) = "-"

\* the lines of ls that are neither blank nor rows of dashes, trimmed
contentLines(ls) ==
  LET kept == SelectSeq(ls, LAMBDA ln : trim(ln) # "" /\ ~isDashRow(trim(ln)))
  IN [k \in 1..Len(kept) |-> trim(kept[k])]

(* C16: the scan for table runs. Outside a run, a table-row-shaped line
   starts a run and any other line is emitted. Inside a run, table-row-shaped
   and separator-shaped lines are buffered. The run is flushed at the first
   line that is neither of the two shapes nor blank, or at the end of the
   lines: the flush emits every buffered line, in order, leaves the line that
   ended the run to be handled outside the run, where it is emitted. After
   the scan no buffered line is left behind: the lines that are neither blank
   nor rows of dashes are the same before and after, in the same order. *)
C16_TableRunStateMachine ==
  /\ [][(pc = "scan" /\ i <= Len(lines)) =>
          IF isTableLine(lines[i])
          THEN pc' = "run" /\ block' = <<>> /\ i' = i /\ out' = out
          ELSE pc' = "scan" /\ out' = Append(out, lines[i]) /\ i' = i + 1]_vars
  /\ [][(pc = "run" /\ i <= Len(lines) /\ (isTableLine(lines[i]) \/ isSepLine(lines[i]))) =>
          pc' = "run" /\ block' = Append(block, trim(lines[i])) /\ i' = i + 1 /\ out' = out]_vars
  /\ [][(pc = "run" /\ (i > Len(lines) \/
                         ~(isTableLine(lines[i]) \/ isSepLine(lines[i]) \/ trim(lines[i]) = ""))) =>
          /\ pc' = "scan"
          /\ i' = i
          /\ Len(out') >= Len(out) + Len(block)
          /\ SubSeq(out', 1, Len(out)) = out
          /\ isSubsequence(block, SubSeq(out', Len(out) + 1, Len(out')))]_vars
  /\ [](pc \in {"trim", "frame", "done"} =>
          block = <<>> /\ i = Len(lines) + 1 /\ contentLines(out) = contentLines(lines))

C16_Witness ==
  /\ pc = "trim"
  /\ input = "| A | B |\n| 1 | 2 |\ny"
  /\ out = <<"| A | B |", "|---|---|", "| 1 | 2 |", "|---|---|", "", "y", "", "">>


\* a row whose cells are made of dashes and colons: between two neighbouring
\* pipes (or a pipe and an end of the row) stand only dashes, colons and
\* spaces, a dash among them; nothing need stand outside the outer pipes
validSeparator(ln) ==
  LET t == trim(ln)
      marks == {k \in 0..(Len(t) + 1) : k = 0 \/ k = Len(t) + 1 \/ Char(t, k) = "|"}
      cellOk(a, b) ==
        \/ (a = 0 \/ b = Len(t) + 1) /\ b = a + 1
        \/ /\ \A k \in (a + 1)..(b - 1) : Char(t, k) \in {"-", ":", " "}
           /\ \E k \in (a + 1)..(b - 1) : Char(t, k) = "-"
  IN /\ \E k \in 1..Len(t) : Char(t, k) = "|"
     /\ \A a \in marks : \A b \in marks :
          (a < b /\ \A m \in marks : ~(a < m /\ m < b)) => cellOk(a, b)

\* the lines a flush has added to out, without the blank lines around them
emittedBlock(before, after) ==
  SelectSeq(SubSeq(after, Len(before) + 1, Len(after)), LAMBDA ln : ln # "")

(* C17: when a run is flushed, the block is emitted as it is exactly when its
   second line is a valid separator row, a row whose cells are made of dashes
   and colons; otherwise a separator row is put in as the new second line. So
   in every emitted block the line below the header is a valid separator row
   and not a data row. *)
C17_SeparatorSecondLine ==
  [][(pc = "run" /\ pc' = "scan" /\ block # <<>>) =>
       LET emitted == emittedBlock(out, out')
       IN /\ (emitted = block) <=> (Len(block) >= 2 /\ validSeparator(block[2]))
          /\ emitted # block =>
               /\ Len(emitted) = Len(block) + 1
               /\ emitted[1] = block[1]
               /\ SubSeq(emitted, 3, Len(emitted)) = Tail(block)
          /\ validSeparator(emitted[2])]_vars

C17_Witness ==
  /\ pc = "trim"
  /\ input = "| A | B |\n| - | 2 |"
  /\ out = <<"| A | B |", "| - | 2 |", "">>


\* the fragments of a row split on the pipe, the empty first and the empty
\* last fragment not counted
columnsOf(row) ==
  Cardinality({k \in 1..Len(row) : Char(row, k) = "|"}) + 1
    - (IF row # "" /\ Char(row, 1) = "|" THEN 1 ELSE 0)
    - (IF row # "" /\ Char(row, Len(row)) = "|" THEN 1 ELSE 0)

\* a row of --- cells and nothing else
isSynthesized(ln) == \E n \in 1..Len(ln) : ln = dashRow(n)

(* C18: a synthesized separator row has as many --- cells as the header row
   has fragments when split on the pipe, the empty first and last fragment
   left out and an empty cell inside the header counted; the other rows of
   the block are emitted as they are. This holds for the separator row the
   flush of a run puts in and for the one the replace before the scan puts
   below a row. *)
C18_SeparatorColumnCount ==
  /\ [][(pc = "run" /\ pc' = "scan" /\ block # <<>> /\ emittedBlock(out, out') # block) =>
          /\ emittedBlock(out, out')[2] = dashRow(columnsOf(block[1]))
          /\ SubSeq(emittedBlock(out, out'), 3, Len(block) + 1) = Tail(block)]_vars
  /\ [][(pc = "separators" /\ pc' = "around") =>
          LET ls == splitLines(s') IN
            \A k \in 2..Len(ls) :
              (isSynthesized(ls[k]) /\ isTableLine(ls[k - 1]) /\ ~isDashRow(ls[k - 1])) =>
                ls[k] = dashRow(columnsOf(trim(ls[k - 1])))]_vars

C18_Witness ==
  /\ pc = "trim"
  /\ input = "| A || B |\n| 1 | 2 |"
  /\ out = <<"| A || B |", "|---|---|", "| 1 | 2 |", "">>


\* line k of ls belongs to a table block: it is table-row-shaped, or it is
\* separator-shaped and the line in front of it belongs to a block
RECURSIVE inBlock(_, _)
inBlock(ls, k) ==
  /\ k >= 1
  /\ k <= Len(ls)
  /\ \/ isTableLine(ls[k])
     \/ isSepLine(ls[k]) /\ inBlock(ls, k - 1)

(* C19: in the returned text every table block stands between single blank
   lines: when a line that is not of the block stands in front of its first
   row, that line is blank and the one in front of it is not; likewise behind
   its last row; the first and the last line of the text aside. *)
C19_TableFraming ==
  pc = "done" =>
    \A k \in 1..Len(outLines) :
      inBlock(outLines, k) =>
        /\ (k > 1 /\ ~inBlock(outLines, k - 1)) =>
             outLines[k - 1] = "" /\ (k = 2 \/ outLines[k - 2] # "")
        /\ (k < Len(outLines) /\ ~inBlock(outLines, k + 1)) =>
             outLines[k + 1] = "" /\ (k + 2 > Len(outLines) \/ outLines[k + 2] # "")

C19_Witness ==
  /\ pc = "done"
  /\ input = "x\n\n| A | B |\n|---|---|\n| 1 | 2 |"
  /\ s = "x\n\n\n| A | B |\n|---|---|\n|---|---|\n| 1 | 2 |\n"


\* texts with a heading written as an HTML tag pair: the lines of the text,
\* the heading line it is to become, and the line expected behind that line
\* in the returned text when nothing else follows in the input
HeadingCases ==
  { [core |-> <<"<h2>T</h2>y">>, line |-> "## T", next |-> "y"],
    [core |-> <<"<H1 id=\"t\"> T </H1>">>, line |-> "# T", next |-> ""],
    [core |-> <<"z<h6>S</h6>">>, line |-> "###### S", next |-> ""] }

headingDocs(c) == inContext(c.core) \cup {wrapped(c.core, e) : e \in LineEnds}

\* the one position of a line in a sequence of lines, 0 when it has none or several
positionOf(ls, ln) ==
  LET at == {k \in 1..Len(ls) : ls[k] = ln}
  IN IF Cardinality(at) = 1 THEN CHOOSE k \in at : TRUE ELSE 0

(* C20 as stated: an <hN>text</hN> pair becomes a line of N # characters, a
   space and the trimmed text, and in the returned text the line in front of
   it and the line behind it are blank or an end of the text, also when text
   follows the closing tag directly. *)
C20_AsStated ==
  \A c \in HeadingCases :
    (pc = "done" /\ input \in headingDocs(c)) =>
      LET k == positionOf(outLines, c.line) IN
        /\ k > 0
        /\ k = 1 \/ outLines[k - 1] = ""
        /\ outLines[k + 1] = ""

(* C20 amended: an <hN>text</hN> pair becomes a line of N # characters, a
   space and the trimmed text; in the returned text that line is the first
   line or has a blank line in front of it, and text that follows the closing
   tag directly stands on the line behind the heading line, with no blank
   line between them. *)
C20_HeadingFolding ==
  \A c \in HeadingCases :
    (pc = "done" /\ input \in headingDocs(c)) =>
      LET k == positionOf(outLines, c.line) IN
        /\ k > 0
        /\ k = 1 \/ outLines[k - 1] = ""
        /\ c.next # "" => outLines[k + 1] = c.next

C20_Witness ==
  /\ pc = "done"
  /\ input = "x\n<h2>T</h2>y"
  /\ s = "x\n\n## T\ny\n"

\* the texts with the lines ls in every surrounding, the fence-wrapped included
surrounded(ls) == inContext(ls) \cup {wrapped(ls, e) : e \in LineEnds}

BadgeSeps == {"", " "}

(* C21: two badges that stand next to each other on one line are on two
   lines, one directly below the other, when the split at line 159 has run;
   the split and the merge at line 162 each run once in a call, the split
   first: of three badges on one line only the first is split off, and the
   merge that follows joins lines the split has produced and is itself not
   followed by another split. *)
C21_BadgeSplitOnce ==
  /\ [](\A sep \in BadgeSeps :
          /\ (pc = "badgemerge" /\ input \in surrounded(<<badge(1) \o sep \o badge(2)>>))
               => directlyBelow(outLines, badge(1), badge(2))
          /\ (pc = "badgemerge"
                /\ input \in surrounded(<<badge(1) \o sep \o badge(2) \o sep \o badge(3)>>))
               => directlyBelow(outLines, badge(1), badge(2) \o sep \o badge(3)))
  /\ []((pc = "separators"
           /\ input \in {joinLines(p \o <<badge(1) \o " " \o badge(2), badge(3)>>) \o "\n" :
                           p \in Prefixes})
          => \E k \in 1..Len(outLines) :
               outLines[k] = badge(1) \o " " \o badge(2) \o " " \o badge(3))
  /\ [][/\ pc' = "badgesplit" => pc = "shields"
        /\ pc = "badgesplit" => pc' = "badgemerge"
        /\ pc' = "badgemerge" => pc = "badgesplit"
        /\ pc = "badgemerge" => pc' = "separators"
        /\ pc \in {"badgesplit", "badgemerge"} => stagesLeft' < stagesLeft]_vars

C21_Witness ==
  /\ pc = "separators"
  /\ input = "![a](s) ![b](t) ![c](u)"
  /\ s = "![a](s)\n![b](t) ![c](u)"

\* a line that is a list item whose marker has no space behind it: the first
\* character that is no space or tab is a marker, and behind it stands a
\* character that is neither white space nor a marker (a run of markers is a
\* horizontal rule or bold text, not an item)
unspacedItem(ln) ==
  LET m == skipBlank(ln, 1) IN
  /\ m + 1 <= Len(ln)
  /\ isListMarker(Char(ln, m))
  /\ ~isSpace(Char(ln, m + 1))
  /\ ~isListMarker(Char(ln, m + 1))

\* the line with one space behind the marker of an unspaced item
withMarkerSpace(ln) ==
  LET m == skipBlank(ln, 1) IN
  IF unspacedItem(ln) THEN SubSeq(ln, 1, m) \o " " \o SubSeq(ln, m + 1, Len(ln)) ELSE ln

(* C22: the list-marker pass (line 141) puts one space behind the marker of
   every list item whose marker is directly followed by content and changes
   nothing else: every other line, a horizontal rule, a line that starts with
   bold text and an item whose marker has a space behind it among them, is
   the same before and after the pass. *)
C22_ListMarkerSpacing ==
  [][pc = "list" =>
       splitLines(s') = [k \in 1..Len(splitLines(s)) |-> withMarkerSpace(splitLines(s)[k])]]_vars

C22_Witness ==
  /\ pc = "blank"
  /\ input = "---"
  /\ s = "- --"

\* the least index from k on of a line of ls that starts with a fence, 0 if none
fenceLineFrom(ls, k) ==
  LET ks == {j \in k..Len(ls) : startsWith(trimStart(ls[j]), Fence)} IN
  IF ks = {} THEN 0 ELSE CHOOSE j \in ks : \A m \in ks : j <= m

\* the lines between the first fence line of ls and the next one
firstFencedLines(ls) ==
  LET o == fenceLineFrom(ls, 1)
      c == IF o = 0 THEN 0 ELSE fenceLineFrom(ls, o + 1)
  IN IF c = 0 THEN <<>> ELSE SubSeq(ls, o + 1, c - 1)

\* a fenced block followed by text, so that its closing fence is not the end
\* of the text
fencedDocs(c) ==
  {joinLines(p \o c \o q) \o e : p \in Prefixes, q \in Suffixes \ {<<>>}, e \in LineEnds}

(* C23: the content of a fenced code block is preserved: in the returned
   text the lines between the opening and the closing fence are the lines
   that stand between them in the input (without trailing white space), in
   their order, none added, dropped or rewritten. *)
C23_FencedContentPreserved ==
  \A c \in CodeBlocks :
    (pc = "done" /\ input \in fencedDocs(c))
      => LET o == fenceLineFrom(outLines, 1) IN
         /\ o > 0
         /\ fenceLineFrom(outLines, o + 1) > 0
         /\ firstFencedLines(outLines)
              = [k \in 1..(Len(c) - 2) |-> trimEnd(c[k + 1])]

C23_Witness ==
  /\ pc = "done"
  /\ input = joinLines(<<Fence \o "js", "c", Fence, "y">>)
  /\ outLines = <<Fence \o "js", "", "c", "", Fence, "", "y", "">>

\* line k of ls lies in a table run: it is table-row-shaped, or it follows a
\* line of a run and is separator-shaped or blank
RECURSIVE inRun(_, _)
inRun(ls, k) ==
  \/ isTableLine(ls[k])
  \/ k > 1 /\ (isSepLine(ls[k]) \/ trim(ls[k]) = "") /\ inRun(ls, k - 1)

\* the lines of ls outside the table runs, in their order
outsideRuns(ls) ==
  LET ks == {k \in 1..Len(ls) : ~inRun(ls, k)}
      RECURSIVE pick(_)
      pick(k) == IF k > Len(ls) THEN <<>>
                 ELSE (IF k \in ks THEN <<ls[k]>> ELSE <<>>) \o pick(k + 1)
  IN pick(1)

\* what a flush may write behind the lines written so far: a blank line (only
\* if the last line written is not blank), the buffered lines with at most a
\* synthesized separator row put in below the first, and a blank line
flushedAs(before, blk, written) ==
  \E lead \in {<<>>, <<"">>}, withSep \in BOOLEAN :
    /\ lead = <<"">> => before # <<>> /\ before[Len(before)] # ""
    /\ IF withSep
       THEN /\ Len(written) = Len(lead) + Len(blk) + 2
            /\ isSynthesized(written[Len(lead) + 2])
            /\ written = lead \o <<blk[1], written[Len(lead) + 2]>> \o Tail(blk) \o <<"">>
       ELSE written = lead \o blk \o <<"">>

(* C24: the frame of the scan at lines 173-202. A line outside a table run is
   appended to the output as it is, once, and what was written stays. Inside
   a run nothing is written until the flush; a line of the run is buffered
   trimmed, and only blank lines are dropped. A flush writes the buffered
   lines in order and adds only a blank line in front, a synthesized
   separator row below the first line, and a blank line behind. The index
   never goes back, moves by one with every line read, a run reads at least
   one line, and the scan ends with the index behind the last line, the lines
   outside the runs all in the output in their order, and nothing in the
   output that is not a line read, a trimmed line read, a blank line or a
   synthesized separator row. *)
C24_ScanFrame ==
  /\ [][(pc = "scan" /\ i <= Len(lines) /\ ~inRun(lines, i)) =>
          out' = Append(out, lines[i]) /\ i' = i + 1 /\ pc' = "scan"]_vars
  /\ [][(pc = "run" /\ pc' = "run") =>
          /\ out' = out
          /\ i' = i + 1
          /\ inRun(lines, i)
          /\ IF trim(lines[i]) = "" THEN block' = block
             ELSE block' = Append(block, trim(lines[i]))]_vars
  /\ [][(pc = "run" /\ pc' = "scan") =>
          /\ block # <<>>
          /\ i' = i
          /\ Len(out') > Len(out)
          /\ SubSeq(out', 1, Len(out)) = out
          /\ flushedAs(out, block, SubSeq(out', Len(out) + 1, Len(out')))]_vars
  /\ [][(pc \in {"scan", "run"} /\ pc' \in {"scan", "run"}) =>
          /\ i' \in {i, i + 1}
          /\ lines' = lines
          /\ (pc = "scan" /\ pc' = "run") => i <= Len(lines) /\ isTableLine(lines[i])]_vars
  /\ [](pc = "run" /\ block = <<>> => i <= Len(lines) /\ isTableLine(lines[i]))
  /\ [](pc \in {"scan", "run"} => i \in 1..(Len(lines) + 1))
  /\ [](pc = "trim" =>
          /\ i = Len(lines) + 1
          /\ isSubsequence(outsideRuns(lines), out)
          /\ \A k \in 1..Len(out) :
               \/ out[k] = ""
               \/ isSynthesized(out[k])
               \/ \E j \in 1..Len(lines) : out[k] = lines[j] \/ out[k] = trim(lines[j]))

C24_Witness ==
  /\ pc = "trim"
  /\ input = "x\n  | A | B |  \n|:--|--:|\n | 1 | 2 |\t\n\ny"
  /\ \E k \in 1..Len(lines) : inRun(lines, k) /\ trim(lines[k]) # lines[k] /\ trim(lines[k]) # ""
  /\ \E k \in 1..Len(lines) : inRun(lines, k) /\ trim(lines[k]) = ""
  /\ outsideRuns(lines) = <<"x", "y">>
  /\ out = <<"x", "", "| A | B |", "|:--|--:|", "|---|---|", "| 1 | 2 |", "", "y">>

====
